---- MODULE Spec2Model ----
(***************************************************************************)
(* Model of the preview cache of client/src/components/CsvPreviewPanel.jsx *)
(* (the CsvPreviewPanel component): three React state objects (previews,   *)
(* loading, errors), the fetchingRef set, the effect that reconciles them  *)
(* with the selectedFiles prop, and the promise chain of every preview     *)
(* request the effect issues.                                              *)
(*                                                                         *)
(* React state written with a functional updater is modelled by its latest *)
(* value (all queued updaters applied); what a render saw is the closure   *)
(* the effect reads.  The effect is passive: it runs some time after the   *)
(* render that scheduled it and before the next render.                    *)
(***************************************************************************)
EXTENDS Integers, FiniteSets, Sequences, TLC

\* ---- bounds ----
MaxFileId == 2
MaxFetches == 2
MaxCalls == 4
MaxChanges == 2

FileIds == 1..MaxFileId

\* error.message of the two failure paths of the promise chain
HttpError == "Failed to load preview"
NetworkError == "network error"
ErrorMessages == {HttpError, NetworkError}

VARIABLES
    selectedFiles,  \* ids of the selectedFiles prop of the last render
    previews,       \* useState({}) : property name -> preview data
    loading,        \* useState({}) : property name -> true
    errors,         \* useState({}) : property name -> error.message
    fetchingRef,    \* useRef(new Set()) : set of file ids
    closure,        \* previews/loading/errors as the last render saw them
    effectState,    \* "idle" | "pending" | "replay" : the passive effect
    strictMode,     \* development StrictMode replay of the mount effect owed
    autoBatch,      \* updates of one microtask drain are rendered together
    requests,       \* preview requests whose promise chain has not finished
    issued,         \* file id -> number of preview requests issued so far
    history,        \* "ran": the effect ran; "again": and then the same list
                    \* was rendered; "reran": the effect ran on that;
                    \* "other": a completion or another list came between
    pageFiles,      \* DatabasePage useState([]) files: id -> is_selected
    serverFiles,    \* is_selected of every file as the server stores it
    calls,          \* requests of DatabasePage that have not returned
    started,        \* number of requests DatabasePage has sent
    changes         \* changes of the list counted by the convergence runs

pageVars == <<pageFiles, serverFiles, calls, started>>

\* what no action of the preview panel touches
restVars == <<pageFiles, serverFiles, calls, started, changes>>

vars == <<selectedFiles, previews, loading, errors, fetchingRef, closure,
          effectState, strictMode, autoBatch, requests, issued, history,
          pageFiles, serverFiles, calls, started, changes>>

\* ---- JavaScript objects and key conversion ----

\* a number that is no file id stands for NaN
NaN == 0 - 1

\* A file id is a number n of FileIds or the string of such a number; the
\* string of n is written MaxFileId + n, so that the two kinds can sit in
\* one set and stay different values ("1" is not 1 for Set.has).
StrId(n) == MaxFileId + n
IsStrId(id) == id > MaxFileId
StrFileIds == {StrId(n) : n \in FileIds}

\* property key of an object indexed with an id: String(id)
ToPropName(id) ==
    IF IsStrId(id) THEN ToString(id - MaxFileId) ELSE ToString(id)

\* parseInt of a property name
parseInt(str) ==
    LET ns == {n \in FileIds : ToString(n) = str}
    IN IF ns = {} THEN NaN ELSE CHOOSE n \in ns : TRUE

EmptyObject == [p \in {} |-> TRUE]

\* obj[id] is truthy
Has(obj, id) == ToPropName(id) \in DOMAIN obj

\* { ...prev, [id]: value }
Put(prev, id, value) ==
    [p \in DOMAIN prev \cup {ToPropName(id)} |->
        IF p = ToPropName(id) THEN value ELSE prev[p]]

\* const next = { ...prev }; delete next[id]; return next
Delete(prev, id) ==
    [p \in DOMAIN prev \ {ToPropName(id)} |-> prev[p]]

\* ---- the effect ----

\* the fetch guard without the fetchingRef test
ShouldFetchNoRef(id) ==
    /\ ~Has(closure.previews, id)
    /\ ~Has(closure.loading, id)
    /\ ~Has(closure.errors, id)

\* the fetch guard without the loading test
ShouldFetchNoLoading(id) ==
    /\ ~Has(closure.previews, id)
    /\ ~Has(closure.errors, id)
    /\ id \notin fetchingRef

\* the fetch guard without the errors test
ShouldFetchNoErrors(id) ==
    /\ ~Has(closure.previews, id)
    /\ ~Has(closure.loading, id)
    /\ id \notin fetchingRef

\* the guard of the effect: fetch only what is not loaded, loading, failed
\* or being fetched
ShouldFetch(id) ==
    /\ ~Has(closure.previews, id)
    /\ ~Has(closure.loading, id)
    /\ ~Has(closure.errors, id)
    /\ id \notin fetchingRef

\* the files the forEach of the effect issues a request for
ToFetch == {id \in selectedFiles : ShouldFetch(id)}

\* setLoading(prev => ({ ...prev, [file.id]: true })) for every id of ids
MarkLoading(prev, ids) ==
    [p \in DOMAIN prev \cup {ToPropName(id) : id \in ids} |-> TRUE]

\* the response a request will carry if it succeeds
Response(id, n) == [fileId |-> id, fetch |-> n]

NewRequest(id) == [fileId |-> id, fetch |-> issued[id] + 1, pc |-> "pending"]

\* the updater of setPreviews that drops the previews of unselected files
PrunePreviews(prev, selectedIds) ==
    [p \in {q \in DOMAIN prev : parseInt(q) \in selectedIds} |-> prev[p]]

\* fetchingRef.current.forEach: delete the ids that are not selected
CleanFetchingRef(ref, selectedIds) == {id \in ref : id \in selectedIds}

MicrotasksDrained == \A r \in requests : r.pc = "pending"

\* React may render, or flush the passive effect, at this point
CanSchedule == autoBatch => MicrotasksDrained

Snapshot == [previews |-> previews, loading |-> loading, errors |-> errors]

\* A render of the component with the prop selectedFiles = files: caused by
\* the parent (a new or an equal list) or by the component's own updates.
\* The callbacks of one promise chain run in one microtask drain, so the
\* parent, which changes the list in a task of its own, cannot come between
\* them; without batching each of their updates renders at once.
Render(files) ==
    /\ effectState = "idle"
    /\ CanSchedule
    /\ files # selectedFiles => MicrotasksDrained
    /\ selectedFiles' = files
    /\ closure' = Snapshot
    /\ effectState' = "pending"
    /\ history' = IF history \in {"ran", "reran"} /\ files = selectedFiles
                  THEN "again" ELSE "other"
    /\ UNCHANGED <<previews, loading, errors, fetchingRef, strictMode,
                   autoBatch, requests, issued>>

\* One run of the effect (lines 11-72).
RunEffect ==
    /\ effectState # "idle"
    /\ effectState = "pending" => CanSchedule
    /\ \A id \in ToFetch : issued[id] < MaxFetches
    /\ fetchingRef' = CleanFetchingRef(fetchingRef \cup ToFetch, selectedFiles)
    /\ loading' = MarkLoading(loading, ToFetch)
    /\ requests' = requests \cup {NewRequest(id) : id \in ToFetch}
    /\ issued' = [id \in DOMAIN issued |->
                    IF id \in ToFetch THEN issued[id] + 1 ELSE issued[id]]
    /\ previews' = PrunePreviews(previews, selectedFiles)
    /\ effectState' = IF effectState = "pending" /\ strictMode
                      THEN "replay" ELSE "idle"
    /\ strictMode' = FALSE
    /\ history' = IF history = "again" \/ effectState = "replay"
                  THEN "reran" ELSE "ran"
    /\ UNCHANGED <<selectedFiles, errors, closure, autoBatch>>

\* ---- the promise chain of a request ----

\* setErrors of the .catch handler, replacing the whole object
CatchErrorsReplace(prev, id, message) ==
    [p \in {ToPropName(id)} |-> message]

\* setErrors(prev => ({ ...prev, [file.id]: error.message }))
CatchErrors(prev, id, message) == Put(prev, id, message)

\* response.ok and a body that parses: the second .then (lines 26-33)
FetchResolve(r) ==
    /\ r \in requests
    /\ r.pc = "pending"
    /\ effectState # "replay"
    /\ previews' = Put(previews, r.fileId, Response(r.fileId, r.fetch))
    /\ errors' = Delete(errors, r.fileId)
    /\ requests' = (requests \ {r}) \cup {[r EXCEPT !.pc = "finally"]}
    /\ history' = "other"
    /\ UNCHANGED <<selectedFiles, loading, fetchingRef, closure, effectState,
                   strictMode, autoBatch, issued>>

\* a transport error, a status that is not ok, or a body that does not
\* parse: the .catch (lines 34-36)
FetchReject(r, message) ==
    /\ r \in requests
    /\ r.pc = "pending"
    /\ effectState # "replay"
    /\ errors' = CatchErrors(errors, r.fileId, message)
    /\ requests' = (requests \ {r}) \cup {[r EXCEPT !.pc = "finally"]}
    /\ history' = "other"
    /\ UNCHANGED <<selectedFiles, previews, loading, fetchingRef, closure,
                   effectState, strictMode, autoBatch, issued>>

\* the .finally without the setLoading that clears the flag
FetchFinallyKeepLoading(r) ==
    /\ r \in requests
    /\ r.pc = "finally"
    /\ effectState # "replay"
    /\ fetchingRef' = fetchingRef \ {r.fileId}
    /\ requests' = requests \ {r}
    /\ history' = "other"
    /\ UNCHANGED <<selectedFiles, previews, loading, errors, closure,
                   effectState, strictMode, autoBatch, issued>>

\* the .finally (lines 37-44)
FetchFinally(r) ==
    /\ r \in requests
    /\ r.pc = "finally"
    /\ effectState # "replay"
    /\ fetchingRef' = fetchingRef \ {r.fileId}
    /\ loading' = Delete(loading, r.fileId)
    /\ requests' = requests \ {r}
    /\ history' = "other"
    /\ UNCHANGED <<selectedFiles, previews, errors, closure, effectState,
                   strictMode, autoBatch, issued>>

\* ---- DatabasePage: the list of files and the selection toggle ----

\* the route of DatabasePage is not shown: no list, no request
PageNotMounted ==
    /\ pageFiles = EmptyObject
    /\ serverFiles = [id \in FileIds |-> 0]
    /\ calls = {}
    /\ started = 0
    /\ changes = 0

panelVars == <<selectedFiles, previews, loading, errors, fetchingRef,
               closure, effectState, strictMode, autoBatch, requests,
               issued, history>>

\* GET /api/files sent by fetchFiles (mount, upload, delete)
GetCall(n) ==
    [kind |-> "GET", n |-> n, fileId |-> 0, isSelected |-> FALSE,
     snapshot |-> EmptyObject, data |-> EmptyObject, pc |-> "sent"]

\* PUT /api/files/{fileId}/selection sent by handleSelectionChange; the
\* handler keeps the files of the render it was created in
PutCall(n, fileId, isSelected) ==
    [kind |-> "PUT", n |-> n, fileId |-> fileId, isSelected |-> isSelected,
     snapshot |-> pageFiles, data |-> EmptyObject, pc |-> "sent"]

\* files.map(...) of the handler applied to the list it is given
MapSelection(list, fileId, isSelected) ==
    [id \in DOMAIN list |->
        IF id = fileId THEN (IF isSelected THEN 1 ELSE 0) ELSE list[id]]

\* setFiles(files.map(file => file.id === fileId ? {...} : file))
SelectionUpdate(c) == MapSelection(c.snapshot, c.fileId, c.isSelected)

\* fetchFiles up to its await (line 35): upload or delete succeeded
FetchFilesStart ==
    /\ started < MaxCalls
    /\ started' = started + 1
    /\ calls' = calls \cup {GetCall(started + 1)}
    /\ UNCHANGED <<pageFiles, serverFiles>>

\* the user clicks the checkbox of a listed file: handleSelectionChange up
\* to its await (lines 79-87); e.target.checked is the new value
ToggleSelection(fileId) ==
    /\ fileId \in DOMAIN pageFiles
    /\ started < MaxCalls
    /\ started' = started + 1
    /\ calls' = calls \cup {PutCall(started + 1, fileId, pageFiles[fileId] # 1)}
    /\ UNCHANGED <<pageFiles, serverFiles>>

\* the server handles a request, or the request fails
ServerHandle(c) ==
    /\ c \in calls
    /\ c.pc = "sent"
    /\ \/ /\ c.kind = "PUT"
          /\ serverFiles' = [serverFiles EXCEPT
                               ![c.fileId] = IF c.isSelected THEN 1 ELSE 0]
          /\ calls' = (calls \ {c}) \cup {[c EXCEPT !.pc = "ok"]}
       \/ /\ c.kind = "GET"
          /\ calls' = (calls \ {c}) \cup
                      {[c EXCEPT !.pc = "ok", !.data = serverFiles]}
          /\ UNCHANGED serverFiles
       \/ /\ calls' = (calls \ {c}) \cup {[c EXCEPT !.pc = "failed"]}
          /\ UNCHANGED serverFiles
    /\ UNCHANGED <<pageFiles, started>>

\* handleSelectionChange after its await (lines 89-100)
SelectionResponse(c) ==
    /\ c \in calls
    /\ c.kind = "PUT"
    /\ c.pc # "sent"
    /\ pageFiles' = IF c.pc = "ok" THEN SelectionUpdate(c) ELSE pageFiles
    /\ calls' = calls \ {c}
    /\ UNCHANGED <<serverFiles, started>>

\* fetchFiles after its await (lines 36-42)
FetchFilesResponse(c) ==
    /\ c \in calls
    /\ c.kind = "GET"
    /\ c.pc # "sent"
    /\ pageFiles' = IF c.pc = "ok" THEN c.data ELSE pageFiles
    /\ calls' = calls \ {c}
    /\ UNCHANGED <<serverFiles, started>>

\* DatabasePage has just mounted: files = [], fetchFiles of the mount
\* effect sent; the preview panel is not part of this page.
PageInit ==
    /\ selectedFiles = {}
    /\ previews = EmptyObject
    /\ loading = EmptyObject
    /\ errors = EmptyObject
    /\ fetchingRef = {}
    /\ closure = [previews |-> EmptyObject, loading |-> EmptyObject,
                  errors |-> EmptyObject]
    /\ effectState = "idle"
    /\ autoBatch = TRUE
    /\ strictMode = FALSE
    /\ requests = {}
    /\ issued = [id \in FileIds |-> 0]
    /\ history = "other"
    /\ pageFiles = EmptyObject
    /\ serverFiles \in [FileIds -> {0, 1}]
    /\ calls = {GetCall(1)}
    /\ started = 1
    /\ changes = 0

PageNext ==
    \/ FetchFilesStart /\ UNCHANGED <<panelVars, changes>>
    \/ \E fileId \in FileIds : ToggleSelection(fileId) /\ UNCHANGED <<panelVars, changes>>
    \/ \E c \in calls : ServerHandle(c) /\ UNCHANGED <<panelVars, changes>>
    \/ \E c \in calls : SelectionResponse(c) /\ UNCHANGED <<panelVars, changes>>
    \/ \E c \in calls : FetchFilesResponse(c) /\ UNCHANGED <<panelVars, changes>>

SpecPage == PageInit /\ [][PageNext]_vars

\* ---- specification ----

\* The component has just mounted: empty state, the mount effect scheduled.
\* Effects are replayed once on mount only by a development build in
\* StrictMode on a concurrent root, which also batches updates.
Init ==
    /\ selectedFiles \in SUBSET FileIds
    /\ previews = EmptyObject
    /\ loading = EmptyObject
    /\ errors = EmptyObject
    /\ fetchingRef = {}
    /\ closure = [previews |-> EmptyObject, loading |-> EmptyObject,
                  errors |-> EmptyObject]
    /\ effectState = "pending"
    /\ autoBatch \in BOOLEAN
    /\ strictMode \in {s \in BOOLEAN : s => autoBatch}
    /\ requests = {}
    /\ issued = [id \in FileIds |-> 0]
    /\ history = "other"
    /\ PageNotMounted

Next ==
    \/ \E files \in SUBSET FileIds : Render(files) /\ UNCHANGED restVars
    \/ RunEffect /\ UNCHANGED restVars
    \/ \E r \in requests : FetchResolve(r) /\ UNCHANGED restVars
    \/ \E r \in requests, message \in ErrorMessages :
          FetchReject(r, message) /\ UNCHANGED restVars
    \/ \E r \in requests : FetchFinally(r) /\ UNCHANGED restVars

Spec == Init /\ [][Next]_vars

\* The same component given files whose ids are strings.
StrInit ==
    /\ selectedFiles \in SUBSET StrFileIds
    /\ previews = EmptyObject
    /\ loading = EmptyObject
    /\ errors = EmptyObject
    /\ fetchingRef = {}
    /\ closure = [previews |-> EmptyObject, loading |-> EmptyObject,
                  errors |-> EmptyObject]
    /\ effectState = "pending"
    /\ autoBatch \in BOOLEAN
    /\ strictMode \in {s \in BOOLEAN : s => autoBatch}
    /\ requests = {}
    /\ issued = [id \in StrFileIds |-> 0]
    /\ history = "other"
    /\ PageNotMounted

StrNext ==
    \/ \E files \in SUBSET StrFileIds : Render(files) /\ UNCHANGED restVars
    \/ RunEffect /\ UNCHANGED restVars
    \/ \E r \in requests : FetchResolve(r) /\ UNCHANGED restVars
    \/ \E r \in requests, message \in ErrorMessages :
          FetchReject(r, message) /\ UNCHANGED restVars
    \/ \E r \in requests : FetchFinally(r) /\ UNCHANGED restVars

SpecStr == StrInit /\ [][StrNext]_vars

\* a step that is a run of the effect
EffectStep == effectState # "idle" /\ effectState' # effectState

TypeOK ==
    /\ selectedFiles \subseteq FileIds
    /\ fetchingRef \subseteq FileIds
    /\ effectState \in {"idle", "pending", "replay"}
    /\ \A r \in requests : r.fileId \in FileIds /\ r.fetch \in 1..MaxFetches

\* ---- entries of a key ----

Loading(id) == Has(loading, id)
Loaded(id) == Has(previews, id)
Failed(id) == Has(errors, id)
Absent(id) == ~Loading(id) /\ ~Loaded(id) /\ ~Failed(id)

\* the keys that hold an entry in any of the three objects
EntryKeys == {id \in FileIds : ~Absent(id)}

RequestsFor(id) == {r \in requests : r.fileId = id}

\* what the component holds for one key
EntryOf(id) ==
    [loading |-> Loading(id),
     preview |-> IF Loaded(id) THEN {previews[ToPropName(id)]} ELSE {},
     error |-> IF Failed(id) THEN {errors[ToPropName(id)]} ELSE {},
     inFlight |-> id \in fetchingRef]

EntryOfNext(id) ==
    [loading |-> Has(loading', id),
     preview |-> IF Has(previews', id)
                 THEN {previews'[ToPropName(id)]} ELSE {},
     error |-> IF Has(errors', id) THEN {errors'[ToPropName(id)]} ELSE {},
     inFlight |-> id \in fetchingRef']

\* C1: at most one preview request per key is outstanding at any time,
\* whatever the interleaving of renders, effect runs and completions.
C1_OneOutstandingPerKey ==
    \A id \in FileIds : Cardinality(RequestsFor(id)) <= 1

\* C1 witness: the effect has run again for a render that saw key 1
\* Loading while its request was still outstanding.
C1_Witness ==
    /\ 1 \in selectedFiles
    /\ Has(closure.loading, 1)
    /\ effectState = "idle"
    /\ \E r \in RequestsFor(1) : r.pc = "pending"
    /\ issued[1] = 1

\* C2: a key that is out of the active set and has been reconciled holds no
\* Loaded entry, so a response that arrives after the eviction is discarded.
C2_LateSuccessDiscarded ==
    \A id \in FileIds :
        (id \notin selectedFiles /\ effectState = "idle") => ~Loaded(id)

\* C3: right after every run of the effect, the keys that hold an entry of
\* any kind (loading flag, preview, error) are all in the active set.
C3_EvictionCorrect ==
    [][EffectStep => EntryKeys' \subseteq selectedFiles']_vars

\* C4: when the effect runs with key id selected again while the request
\* issued before its eviction is still outstanding (the eviction took id
\* out of fetchingRef), it issues a second request for id.
C4_SecondFetchIssued ==
    [][\A id \in FileIds :
         (/\ EffectStep
          /\ id \in selectedFiles
          /\ id \notin fetchingRef
          /\ \E r \in RequestsFor(id) : r.pc = "pending")
         => issued'[id] = issued[id] + 1]_vars

\* C5: a run of the effect for a render that removed a key it saw Failed
\* from the active set destroys the Failed entry, so that a later
\* reselection finds the key Absent and fetches it again.
C5_FailedEvicted ==
    [][\A id \in FileIds :
         (/\ EffectStep
          /\ id \notin selectedFiles
          /\ Has(closure.errors, id)
          /\ Failed(id)
          /\ RequestsFor(id) = {})
         => ~Has(errors', id)]_vars

\* C6: a run of the effect with a Loaded or Failed key in the active set
\* leaves the entry of that key as it is and issues no request for it.
C6_NoRevert ==
    [][\A id \in FileIds :
         (/\ EffectStep
          /\ id \in selectedFiles
          /\ Loaded(id) \/ Failed(id))
         => /\ EntryOfNext(id) = EntryOf(id)
            /\ issued'[id] = issued[id]
            /\ RequestsFor(id)' = RequestsFor(id)]_vars

\* C6 witness: the effect has run for a render that saw key 1 Failed with
\* "network error" and selected, and key 1 has been fetched once only.
C6_Witness ==
    /\ 1 \in selectedFiles
    /\ Has(closure.errors, 1)
    /\ Failed(1)
    /\ errors[ToPropName(1)] = NetworkError
    /\ effectState = "idle"
    /\ RequestsFor(1) = {}
    /\ issued[1] = 1

\* C7: a run of the effect that follows another run with the same active
\* set and no completion in between issues no request and changes nothing.
C7_Idempotent ==
    [][(EffectStep /\ (history = "again" \/ effectState = "replay"))
        => UNCHANGED <<previews, loading, errors, fetchingRef, requests,
                       issued>>]_vars

\* C7 witness: the effect has just run a second time on the same active
\* set while a key of that set is Loading.
C7_Witness ==
    /\ history = "reran"
    /\ effectState = "idle"
    /\ \E id \in selectedFiles : Loading(id) /\ RequestsFor(id) # {}

\* C8: once a key is out of the active set and reconciled, no Failed entry
\* is written for it: the failure of a cancelled request is discarded.
C8_CancelledFailureDiscarded ==
    [][\A id \in FileIds :
         (id \notin selectedFiles /\ effectState = "idle" /\ ~Failed(id))
         => ~Has(errors', id)]_vars

\* C9: a step of the promise chain of a request for key k leaves the entry
\* and the in-flight registration of every other key unchanged.
C9_CompletionIsolated ==
    [][\A r \in requests :
         r \notin requests'
         => \A j \in FileIds \ {r.fileId} : EntryOfNext(j) = EntryOf(j)]_vars

\* C9 witness: the request of key 1 has failed and finished while key 2
\* held a Loaded entry, which is still there.
C9_Witness ==
    /\ Failed(1)
    /\ Loaded(2)
    /\ RequestsFor(1) = {}
    /\ issued[1] = 1

\* C10: right after every run of the effect the keys that hold an entry
\* are exactly the keys of the active set.
C10_ExactMembership ==
    [][EffectStep => EntryKeys' = selectedFiles']_vars

\* the half of C10 that the effect keeps: no selected key is left Absent
SelectedKeysHaveEntry ==
    [][EffectStep => selectedFiles' \subseteq EntryKeys']_vars

\* C14: when the promise chain of a request for key k finishes, whatever
\* the outcome and whether or not k is selected, k is out of fetchingRef
\* and its loading flag is cleared.
C14_SettleCleansUp ==
    [][\A r \in requests :
         (r.pc = "finally" /\ r \notin requests')
         => /\ r.fileId \notin fetchingRef'
            /\ ~Has(loading', r.fileId)]_vars

\* C14, the state form: a key is Loading, or registered in fetchingRef,
\* only while a request for it has not finished.
NoLoadingWithoutRequest ==
    \A id \in FileIds :
        (Loading(id) \/ id \in fetchingRef) => RequestsFor(id) # {}

\* C14 witness: the request of key 1 failed after key 1 was deselected and
\* reconciled, and has finished: no flag and no registration are left.
C14_Witness ==
    /\ 1 \notin selectedFiles
    /\ Failed(1)
    /\ ~Has(closure.errors, 1)
    /\ RequestsFor(1) = {}
    /\ ~Loading(1)
    /\ 1 \notin fetchingRef

\* the number of the three objects of a render that hold the key
MapsSet(seen, id) ==
    Cardinality({m \in {"previews", "loading", "errors"} :
                    Has(seen[m], id)})

StateIn(p, l, e, id) ==
    IF Has(p, id) THEN "Loaded"
    ELSE IF Has(e, id) THEN "Failed"
    ELSE IF Has(l, id) THEN "Loading"
    ELSE "Absent"

StateOf(id) == StateIn(previews, loading, errors, id)

StateOfNext(id) == StateIn(previews', loading', errors', id)

\* the moves of an entry that C12 allows
AllowedMove(id) ==
    \/ StateOfNext(id) = StateOf(id)
    \/ /\ StateOf(id) = "Absent"
       /\ StateOfNext(id) = "Loading"
       /\ issued'[id] = issued[id] + 1
    \/ /\ StateOf(id) = "Loading"
       /\ StateOfNext(id) \in {"Loaded", "Failed"}
    \/ /\ StateOfNext(id) = "Absent"
       /\ EffectStep
       /\ id \notin selectedFiles

\* C12: in every step the entry of a key stays as it is or moves
\* Absent -> Loading (a request is issued), Loading -> Loaded,
\* Loading -> Failed, or to Absent in a run of the effect with the key out
\* of the active set.
C12_TransitionDiscipline ==
    [][\A id \in FileIds : AllowedMove(id)]_vars

\* C12 restricted to builds that batch the updates of a promise chain
C12_WhenBatched ==
    [][autoBatch => \A id \in FileIds : AllowedMove(id)]_vars

\* C15: whatever the type of its id, a run of the effect keeps the Loaded
\* entry of a key that the render saw Loaded and that is in the active set.
C15_SelectedPreviewKept ==
    [][\A id \in DOMAIN issued :
         (/\ EffectStep
          /\ id \in selectedFiles
          /\ Has(closure.previews, id)
          /\ Loaded(id))
         => /\ Has(previews', id)
            /\ previews'[ToPropName(id)] = previews[ToPropName(id)]]_vars

\* C16: when the PUT of a toggle has succeeded and its response is handled,
\* the local is_selected of every other listed file stays what it was (no
\* earlier toggle or reload is overwritten) and the toggled file takes the
\* value that was sent.
C16_NoLostSelectionUpdate ==
    [][\A c \in calls :
         (c.kind = "PUT" /\ c.pc = "ok" /\ c \notin calls')
         => /\ DOMAIN pageFiles' = DOMAIN pageFiles
            /\ \A id \in DOMAIN pageFiles \ {c.fileId} :
                 pageFiles'[id] = pageFiles[id]]_vars

\* the end of C16: a PUT that fails leaves the local list unchanged
FailedPutLeavesList ==
    [][\A c \in calls :
         (c.kind = "PUT" /\ c.pc = "failed" /\ c \notin calls')
         => pageFiles' = pageFiles]_vars

\* ---- convergence ----

\* A render that something causes: an update of the state, or one of the
\* at most MaxChanges changes of the list (the sequence of changes is
\* finite).
LiveRender(files) ==
    /\ Render(files)
    /\ IF files = selectedFiles
       THEN Snapshot # closure /\ UNCHANGED changes
       ELSE changes < MaxChanges /\ changes' = changes + 1

\* the request of key id with number n gets its response; which message a
\* failure carries plays no part in what follows, one stands for all
Settle(id, n) ==
    LET r == [fileId |-> id, fetch |-> n, pc |-> "pending"]
    IN \/ FetchResolve(r)
       \/ FetchReject(r, NetworkError)

\* the .finally of the request of key id with number n
Finish(id, n) ==
    FetchFinally([fileId |-> id, fetch |-> n, pc |-> "finally"])

\* React renders again when an updater changed the state
Rerender == Render(selectedFiles) /\ Snapshot # closure

LiveNext ==
    \/ \E files \in SUBSET FileIds : LiveRender(files) /\ UNCHANGED pageVars
    \/ RunEffect /\ UNCHANGED restVars
    \/ \E id \in FileIds, n \in 1..MaxFetches :
          Settle(id, n) /\ UNCHANGED restVars
    \/ \E id \in FileIds, n \in 1..MaxFetches :
          Finish(id, n) /\ UNCHANGED restVars

\* Every issued request settles and its callbacks run; a scheduled effect
\* runs; a changed state is rendered.
Fairness ==
    /\ WF_vars(RunEffect /\ UNCHANGED restVars)
    /\ WF_vars(Rerender /\ UNCHANGED restVars)
    /\ \A id \in FileIds, n \in 1..MaxFetches :
         /\ WF_vars(Settle(id, n) /\ UNCHANGED restVars)
         /\ WF_vars(Finish(id, n) /\ UNCHANGED restVars)

SpecLive == Init /\ [][LiveNext]_vars /\ Fairness

\* a run of the effect would issue nothing and change nothing
EffectIsNoOp ==
    /\ ToFetch = {}
    /\ PrunePreviews(previews, selectedFiles) = previews
    /\ CleanFetchingRef(fetchingRef, selectedFiles) = fetchingRef

\* no request outstanding, no key Loading, every selected key Loaded or
\* Failed with the result of a request issued for it, the effect at rest
Quiescent ==
    /\ requests = {}
    /\ \A id \in FileIds : ~Loading(id)
    /\ \A id \in selectedFiles :
         \/ Loaded(id) /\ previews[ToPropName(id)].fileId = id
                       /\ previews[ToPropName(id)].fetch \in 1..issued[id]
         \/ Failed(id) /\ issued[id] >= 1
    /\ EffectIsNoOp

\* C11: after any finite sequence of changes of the active set, interleaved
\* in any order with completions, and every issued request settling, the
\* component reaches a quiescent state and stays there.
C11_Converges == <>[]Quiescent

\* C11 witness: quiescent with both keys selected after key 1 was
\* deselected, reselected and fetched a second time.
C11_Witness ==
    /\ Quiescent
    /\ effectState = "idle"
    /\ selectedFiles = {1, 2}
    /\ issued[1] = 2
    /\ Loaded(1)
    /\ previews[ToPropName(1)].fetch = 2

====
